---- MODULE Spec2Model ----
(***************************************************************************)
(* A model of django-test-tools (package test_tools):                      *)
(*   utils.py        DebugList (has_diff / get_diff), model_factory,       *)
(*                   profile                                               *)
(*   test_runner.py  PersistentTestDatabaseMixin, build_suite              *)
(*   signals.py      call_test_db_command and its two signal receivers     *)
(* Every part is a small state machine of its own; the specification of a  *)
(* part keeps the variables of the other parts at their idle values.       *)
(***************************************************************************)
EXTENDS Integers, Sequences, FiniteSets, TLC

VARIABLES
    dl_self,      \* DebugList: the list itself, the ids of the expected objects
    dl_call,      \* DebugList: the last has_diff / get_diff call and what it returned
    mf_call,      \* model_factory: the last call, its arguments and what it returned
    decorated,    \* profile: callable -> the log_file its decorator closed over
    files,        \* profile: the file system, path -> the call whose profile it holds
    now,          \* profile: the UTC clock
    prof_calls,   \* profile: the calls of decorated callables made so far
    settings_dict,   \* connections[alias].settings_dict
    connected,       \* the database each connection is open on, if any
    databases,       \* the databases that exist: name -> what was run on it
    runner_pc,       \* the test runner: ready, setup_done, raised, torn_down
    switch_log,      \* the connections setup_databases switched, in order
    old_config,      \* what setup_databases returned: (old_names, mirrors)
    settings_before, \* settings_dict as it was when the last call began
    installed_apps,  \* settings.INSTALLED_APPS
    sig_call,        \* signals: the last receiver call and the events of it
    sig_count,       \* signals: the number of signals received so far
    models_tests,    \* build_suite: the tests Django finds in the models of shop
    suite_call       \* build_suite: the call, its arguments and what it returned

diffVars == <<dl_self, dl_call>>
factoryVars == <<mf_call>>
profileVars == <<decorated, files, now, prof_calls>>

dbVars == <<settings_dict, connected, databases, settings_before>>
runnerVars == <<runner_pc, switch_log, old_config>>

signalVars == <<installed_apps, sig_call, sig_count>>
suiteVars == <<models_tests, suite_call>>

vars == <<diffVars, factoryVars, profileVars, dbVars, runnerVars, signalVars,
          suiteVars>>

othersThanDiff ==
    <<factoryVars, profileVars, dbVars, runnerVars, signalVars, suiteVars>>
othersThanFactory ==
    <<diffVars, profileVars, dbVars, runnerVars, signalVars, suiteVars>>
othersThanProfile ==
    <<diffVars, factoryVars, dbVars, runnerVars, signalVars, suiteVars>>
othersThanRunner == <<diffVars, factoryVars, profileVars, signalVars, suiteVars>>
othersThanSignals == <<diffVars, factoryVars, profileVars, runnerVars, suiteVars>>
othersThanSuite ==
    <<diffVars, factoryVars, profileVars, dbVars, runnerVars, signalVars>>

(***************************************************************************)
(* Helpers on sequences                                                    *)
(***************************************************************************)
\* set(seq)
Range(s) == {s[i] : i \in DOMAIN s}

\* all sequences over S of length at most n
SeqsUpTo(S, n) == UNION {[1..k -> S] : k \in 0..n}

\* filter(pred, seq) for the predicate "x not in S"
RECURSIVE FilterNotIn(_, _)
FilterNotIn(s, S) ==
    IF s = <<>> THEN <<>>
    ELSE IF Head(s) \in S THEN FilterNotIn(Tail(s), S)
         ELSE <<Head(s)>> \o FilterNotIn(Tail(s), S)

(***************************************************************************)
(* utils.py: DebugList                                                     *)
(* An object is modelled by its id: nothing else of it is compared.        *)
(***************************************************************************)
MaxId == 2
MaxLen == 3

Ids == 1..MaxId
IdLists == SeqsUpTo(Ids, MaxLen)

\* reasons of get_diff's message
WrongOrder == <<"Wrong ID order">>
Different == <<"Expected and actual objects are different">>
NoReason == <<"None">>
ExpectedLength(n, m) == <<"Expected length: {0} but got {1} objects", n, m>>

\* message.format(reason, diff), the diff kept as the lines it is made of
Message(reason, expect, got, missed, extra) ==
    [reason |-> reason, Expect |-> expect, Got |-> got,
     Missed |-> missed, Extra |-> extra]

NoCall == [op |-> "none", objects |-> <<>>, ordered |-> FALSE,
           has |-> FALSE, msg |-> Message(NoReason, <<>>, <<>>, <<>>, <<>>)]

\* has_diff without the length test
has_diff_no_len(self, objects, ordered) ==
    LET actual_ids == objects
        expected_ids == self
    IN  IF ordered THEN actual_ids # expected_ids
        ELSE Range(actual_ids) # Range(expected_ids)

has_diff(self, objects, ordered) ==
    LET actual_ids == objects
        expected_ids == self
    IN  IF Len(actual_ids) # Len(expected_ids) THEN TRUE
        ELSE IF ordered THEN actual_ids # expected_ids
        ELSE Range(actual_ids) # Range(expected_ids)

\* get_order_diff: the message, or NoCall.msg for Python's None
OrderDiffApplies(self, objects) ==
    LET actual_ids == objects
        expected_ids == self
    IN  actual_ids # expected_ids /\ Range(actual_ids) = Range(expected_ids)

get_order_diff(self, objects) ==
    LET actual_ids == objects
        expected_ids == self
    IN  Message(WrongOrder, actual_ids, expected_ids, <<>>, <<>>)

get_diff(self, objects, ordered) ==
    IF Len(self) = Len(objects) /\ ordered /\ OrderDiffApplies(self, objects)
    THEN get_order_diff(self, objects)
    ELSE LET missed_objects == FilterNotIn(self, Range(objects))
             extra_objects == FilterNotIn(objects, Range(self))
             reason ==
                 IF Len(self) # Len(objects)
                 THEN ExpectedLength(Len(self), Len(objects))
                 ELSE IF missed_objects # <<>> \/ extra_objects # <<>>
                      THEN Different
                      ELSE NoReason
         IN  Message(reason, <<>>, <<>>, missed_objects, extra_objects)

\* the DebugList as constructed, and the arguments of the call to come
InitDiff ==
    /\ dl_self \in IdLists
    /\ \E objects \in IdLists, ordered \in BOOLEAN :
           dl_call = [NoCall EXCEPT !.objects = objects, !.ordered = ordered]

IdleDiff ==
    /\ dl_self = <<>>
    /\ dl_call = NoCall

call_has_diff ==
    /\ dl_call.op = "none"
    /\ dl_call' = [dl_call EXCEPT !.op = "has_diff",
                      !.has = has_diff(dl_self, dl_call.objects, dl_call.ordered)]
    /\ UNCHANGED dl_self
    /\ UNCHANGED othersThanDiff

call_get_diff ==
    /\ dl_call.op = "none"
    /\ dl_call' = [dl_call EXCEPT !.op = "get_diff",
                      !.msg = get_diff(dl_self, dl_call.objects, dl_call.ordered)]
    /\ UNCHANGED dl_self
    /\ UNCHANGED othersThanDiff

NextDiff == call_has_diff \/ call_get_diff

C6_ExpectIsSelf ==
    (/\ dl_call.op = "get_diff"
     /\ dl_call.ordered
     /\ Len(dl_call.objects) = Len(dl_self)
     /\ Range(dl_call.objects) = Range(dl_self)
     /\ dl_call.objects # dl_self)
    => /\ dl_call.msg.reason = WrongOrder
       /\ dl_call.msg.Expect = dl_self
       /\ dl_call.msg.Got = dl_call.objects

(***************************************************************************)
(* utils.py: model_factory                                                 *)
(* A keyword value is an atom or a list of values.                         *)
(***************************************************************************)
MaxAtom == 2
MaxListLen == 2

Fields == {"a", "b"}
Atom(a) == [list |-> FALSE, atom |-> a, items |-> <<>>]
List(s) == [list |-> TRUE, atom |-> 0, items |-> s]
Atoms == {Atom(a) : a \in 1..MaxAtom}
Values == Atoms \cup {List(s) : s \in SeqsUpTo(Atoms, MaxListLen)}

\* the orders a dict can list the keys S in
KeyOrders(S) ==
    {o \in [1..Cardinality(S) -> S] : \A i, j \in DOMAIN o : o[i] = o[j] => i = j}

EmptyKw == [k \in {} |-> Atom(0)]

Min(S) == CHOOSE n \in S : \A m \in S : n <= m

RECURSIVE Concat(_)
Concat(ss) == IF ss = <<>> THEN <<>> ELSE Head(ss) \o Concat(Tail(ss))

\* every combination of one item per key: itertools.product, not zip
RECURSIVE product_values(_, _)
product_values(keys, kw) ==
    IF keys = <<>> THEN <<EmptyKw>>
    ELSE LET k == Head(keys)
             rest == product_values(Tail(keys), kw)
         IN  Concat([i \in 1..Len(kw[k].items) |->
                        [j \in 1..Len(rest) |-> (k :> kw[k].items[i]) @@ rest[j]]])

\* map(lambda value: dict(zip(kwargs.keys(), value)), zip(*kwargs.values()))
zip_values(keys, kw) ==
    LET n == Min({Len(kw[keys[i]].items) : i \in DOMAIN keys})
    IN  [i \in 1..n |-> [k \in Range(keys) |-> kw[k].items[i]]]

\* _create_model_obj: model.objects.create(**kw) when save, else model(**kw)
_create_model_obj(save, kw) == [kw |-> kw, saved |-> save]

\* the keyword arguments after "wrap every value when the first is no list"
wrapped_kwargs(keys, kw) ==
    IF keys # <<>> /\ ~kw[keys[1]].list
    THEN [k \in DOMAIN kw |-> List(<<kw[k]>>)]
    ELSE kw

\* what model_factory returns: one object, a DebugList, or a TypeError of zip
\* over a value that is no list
model_factory(keys, kw, save) ==
    LET kwargs == wrapped_kwargs(keys, kw)
        base == [kind |-> "list", fields |-> keys, models |-> <<>>]
    IN  IF keys # <<>> /\ \E k \in Range(keys) : ~kwargs[k].list
        THEN [base EXCEPT !.kind = "TypeError"]
        ELSE LET model_kwargs == IF keys # <<>> THEN zip_values(keys, kwargs)
                                 ELSE <<EmptyKw>>
                 models == [i \in DOMAIN model_kwargs |->
                               _create_model_obj(save, model_kwargs[i])]
             IN  [base EXCEPT !.kind = IF Len(models) = 1 THEN "object" ELSE "list",
                              !.models = models]

NoFactoryCall ==
    [op |-> "none", kwargs |-> EmptyKw, keys |-> <<>>, save |-> FALSE,
     ret |-> [kind |-> "list", fields |-> <<>>, models |-> <<>>]]

\* the arguments of the call to come
InitFactory ==
    \E S \in SUBSET Fields, save \in BOOLEAN :
        \E kw \in [S -> Values], keys \in KeyOrders(S) :
            mf_call = [NoFactoryCall EXCEPT !.kwargs = kw, !.keys = keys,
                                            !.save = save]

IdleFactory == mf_call = NoFactoryCall

call_model_factory ==
    /\ mf_call.op = "none"
    /\ mf_call' = [mf_call EXCEPT !.op = "model_factory",
                      !.ret = model_factory(mf_call.keys, mf_call.kwargs,
                                            mf_call.save)]
    /\ UNCHANGED othersThanFactory

NextFactory == call_model_factory

AllLists(call) ==
    /\ call.op = "model_factory"
    /\ call.keys # <<>>
    /\ \A k \in DOMAIN call.kwargs : call.kwargs[k].list

RECURSIVE ProductOfLens(_, _)
ProductOfLens(keys, kw) ==
    IF keys = <<>> THEN 1
    ELSE Len(kw[Head(keys)].items) * ProductOfLens(Tail(keys), kw)

\* C1 as stated: lists of lengths n1..nk give n1*...*nk instances, one for
\* every combination of the cartesian product.
C1_CartesianProduct ==
    AllLists(mf_call) =>
        /\ Len(mf_call.ret.models) = ProductOfLens(mf_call.keys, mf_call.kwargs)
        /\ \A c \in [DOMAIN mf_call.kwargs -> Atoms] :
               (\A k \in DOMAIN c : c[k] \in Range(mf_call.kwargs[k].items))
               => \E i \in DOMAIN mf_call.ret.models : mf_call.ret.models[i].kw = c

\* C1 as amended: the lists are read in parallel; instance i takes the i-th
\* value of every list, and there are as many instances as the shortest list
\* has values.
C1_ParallelLists ==
    AllLists(mf_call) =>
        LET n == Min({Len(mf_call.kwargs[k].items) : k \in DOMAIN mf_call.kwargs})
        IN  /\ mf_call.ret.kind # "TypeError"
            /\ Len(mf_call.ret.models) = n
            /\ \A i \in 1..n : \A k \in DOMAIN mf_call.kwargs :
                   mf_call.ret.models[i].kw[k] = mf_call.kwargs[k].items[i]

\* two lists of two values each: two instances, where the product has four
C1_Witness ==
    /\ AllLists(mf_call)
    /\ DOMAIN mf_call.kwargs = Fields
    /\ \A k \in Fields : Len(mf_call.kwargs[k].items) = 2
    /\ Len(mf_call.ret.models) = 2

(***************************************************************************)
(* utils.py: profile                                                       *)
(* A path is its directory, the stem and the extension of its file name,   *)
(* and the time stamp put between the two (NoStamp: none).                 *)
(***************************************************************************)
MaxTime == 3
MaxCalls == 3

PROFILE_LOG_BASE == "/tmp"
NoStamp == 0
Callables == {"f", "g"}
LogFileArgs ==
    [abs : BOOLEAN, dir : {"", "/var/prof"}, stem : {"my_view"}, ext : {".prof", ""}]

\* os.path.isabs / os.path.join(PROFILE_LOG_BASE, log_file), at decoration
ResolvedLogFile(arg) ==
    IF arg.abs THEN [dir |-> arg.dir, stem |-> arg.stem, ext |-> arg.ext]
    ELSE [dir |-> PROFILE_LOG_BASE, stem |-> arg.stem, ext |-> arg.ext]

\* os.path.splitext(log_file)
splitext(log_file) ==
    [base |-> [dir |-> log_file.dir, stem |-> log_file.stem], ext |-> log_file.ext]

\* final_log_file = base + ext
final_log_file(log_file) ==
    LET parts == splitext(log_file)
    IN  [dir |-> parts.base.dir, stem |-> parts.base.stem, stamp |-> NoStamp,
         ext |-> parts.ext]

\* the file name the docstring describes: 'my_view-20100211T170321.prof'
StampedLogFile(log_file, time) ==
    [dir |-> log_file.dir, stem |-> log_file.stem, stamp |-> time,
     ext |-> log_file.ext]

NoFiles == [p \in {} |-> 0]

InitProfile ==
    /\ decorated \in [Callables ->
                        {ResolvedLogFile(a) : a \in {x \in LogFileArgs :
                                                        x.abs <=> x.dir # ""}}]
    /\ files = NoFiles
    /\ now = 1
    /\ prof_calls = <<>>

IdleProfile ==
    /\ decorated = [c \in {} |-> 0]
    /\ files = NoFiles
    /\ now = 0
    /\ prof_calls = <<>>

\* the clock advances
Tick ==
    /\ now < MaxTime
    /\ now' = now + 1
    /\ UNCHANGED <<decorated, files, prof_calls>>
    /\ UNCHANGED othersThanProfile

\* _inner: unlink the log file, profile the call into it, close it
call_profiled ==
    \E c \in Callables :
        /\ Len(prof_calls) < MaxCalls
        /\ LET path == final_log_file(decorated[c])
               n == Len(prof_calls) + 1
               unlinked == [p \in DOMAIN files \ {path} |-> files[p]]
           IN  /\ files' = (path :> n) @@ unlinked
               /\ prof_calls' = Append(prof_calls,
                                       [callable |-> c, time |-> now, path |-> path])
        /\ UNCHANGED <<decorated, now>>
        /\ UNCHANGED othersThanProfile

NextProfile == Tick \/ call_profiled

\* C5: every call writes to the file named with the time stamp of the call,
\* so the profile of an earlier call is still there after a later call made
\* at another time.
C5_StampedAndKept ==
    \A i \in DOMAIN prof_calls :
        /\ prof_calls[i].path =
               StampedLogFile(decorated[prof_calls[i].callable], prof_calls[i].time)
        /\ \A j \in DOMAIN prof_calls :
               (i < j /\ prof_calls[i].time # prof_calls[j].time)
               => /\ prof_calls[i].path # prof_calls[j].path
                  /\ prof_calls[i].path \in DOMAIN files
                  /\ files[prof_calls[i].path] = i

(***************************************************************************)
(* Database connections (django.db.connections), shared by test_runner.py  *)
(* and signals.py.  A database name is a sequence of tokens, so that       *)
(* 'test_' + name and name.startswith('test_') are what they are in the    *)
(* code; the empty sequence is the empty (falsy) name, and as TEST_NAME    *)
(* also None.  HOST, PORT and ENGINE are the same for every alias, so two  *)
(* aliases have the same test_db_signature exactly when they have the      *)
(* same NAME.                                                              *)
(***************************************************************************)
MaxDeps == 1

DEFAULT_DB_ALIAS == "default"
Aliases == {DEFAULT_DB_ALIAS, "other", "third"}
NoAlias == "None"
TEST_DATABASE_PREFIX == <<"test_">>
Names == {<<>>, <<"a">>}
TestNames == {<<>>, <<"t">>}

startswith_test(name) == Len(name) >= 1 /\ name[1] = "test_"

get_test_db_name(settings) ==
    IF settings.TEST_NAME # <<>> THEN settings.TEST_NAME
    ELSE TEST_DATABASE_PREFIX \o settings.NAME

test_db_signature(settings) == settings.NAME

\* the settings of a TEST_MIRROR alias, and of any other alias
MirrorSettings ==
    [NAME : {<<"a">>}, TEST_NAME : {<<>>}, TEST_MIRROR : Aliases,
     HAS_TEST_DEPENDENCIES : {FALSE}, TEST_DEPENDENCIES : {{}}]
PlainSettings ==
    [NAME : Names, TEST_NAME : TestNames, TEST_MIRROR : {NoAlias},
     HAS_TEST_DEPENDENCIES : {FALSE}, TEST_DEPENDENCIES : {{}}]
    \cup
    [NAME : Names, TEST_NAME : TestNames, TEST_MIRROR : {NoAlias},
     HAS_TEST_DEPENDENCIES : {TRUE},
     TEST_DEPENDENCIES : {D \in SUBSET Aliases : Cardinality(D) <= MaxDeps}]

Closed == [open |-> FALSE, db |-> <<>>]
OpenOn(name) == [open |-> TRUE, db |-> name]

\* the permutations of a set, as sequences
Perms(S) ==
    {o \in [1..Cardinality(S) -> S] : \A i, j \in DOMAIN o : o[i] = o[j] => i = j}

\* the elements of sequence s that are in S, in the order of s
RECURSIVE Restrict(_, _)
Restrict(s, S) ==
    IF s = <<>> THEN <<>>
    ELSE IF Head(s) \in S THEN <<Head(s)>> \o Restrict(Tail(s), S)
         ELSE Restrict(Tail(s), S)

(***************************************************************************)
(* test_runner.py: PersistentTestDatabaseMixin                             *)
(***************************************************************************)
\* reopen_connection: close, rename to the test database, open a cursor
reopen_connection(st, alias) ==
    LET name == get_test_db_name(st.settings[alias])
    IN  [st EXCEPT !.settings[alias].NAME = name,
                   !.connected[alias] = OpenOn(name),
                   !.log = Append(@, [alias |-> alias, how |-> "reopen"])]

\* the duplicate alias left as it is
rename_skipped(st, alias) ==
    [st EXCEPT !.log = Append(@, [alias |-> alias, how |-> "rename"])]

\* the branch of the duplicate alias: the name is set, nothing is reopened
rename_only(st, alias) ==
    [st EXCEPT !.settings[alias].NAME = get_test_db_name(st.settings[alias]),
               !.log = Append(@, [alias |-> alias, how |-> "rename"])]

\* First pass: mirrored_aliases
mirrored_aliases(settings) ==
    {alias \in Aliases : settings[alias].TEST_MIRROR # NoAlias}

\* First pass: test_databases, signature -> (NAME, aliases), the connections
\* being listed in conn_order
test_databases(settings, conn_order) ==
    LET plain == Aliases \ mirrored_aliases(settings)
        sigs == {test_db_signature(settings[a]) : a \in plain}
    IN  [sig \in sigs |->
            LET aliases == Restrict(conn_order,
                    {a \in plain : test_db_signature(settings[a]) = sig})
            IN  [signature |-> sig, db_name |-> settings[aliases[1]].NAME,
                 aliases |-> aliases]]

\* First pass: dependencies
dependencies(settings) ==
    LET plain == Aliases \ mirrored_aliases(settings)
        keys == {a \in plain : settings[a].HAS_TEST_DEPENDENCIES
                                  \/ a # DEFAULT_DB_ALIAS}
    IN  [a \in keys |-> IF settings[a].HAS_TEST_DEPENDENCIES
                        THEN settings[a].TEST_DEPENDENCIES
                        ELSE {DEFAULT_DB_ALIAS}]

\* dependency_ordered (django.test.simple): "for alias in aliases"
RECURSIVE resolve_aliases(_, _, _, _)
resolve_aliases(aliases, deps, resolved, satisfied) ==
    IF aliases = <<>>
    THEN [deps |-> deps, resolved |-> resolved, satisfied |-> satisfied]
    ELSE LET alias == Head(aliases)
         IN  IF alias \in DOMAIN deps
             THEN IF deps[alias] \subseteq resolved
                  THEN resolve_aliases(Tail(aliases),
                           [a \in DOMAIN deps \ {alias} |-> deps[a]],
                           resolved \cup {alias}, satisfied)
                  ELSE resolve_aliases(Tail(aliases), deps, resolved, FALSE)
             ELSE resolve_aliases(Tail(aliases), deps, resolved \cup {alias},
                                  satisfied)

\* dependency_ordered: the inner "while test_databases", which pops from the end
RECURSIVE inner_loop(_, _)
inner_loop(todo, acc) ==
    IF todo = <<>> THEN acc
    ELSE LET item == todo[Len(todo)]
             r == resolve_aliases(item.aliases, acc.deps, acc.resolved, TRUE)
             seen == [acc EXCEPT !.deps = r.deps, !.resolved = r.resolved]
         IN  inner_loop(SubSeq(todo, 1, Len(todo) - 1),
                 IF r.satisfied
                 THEN [seen EXCEPT !.ordered = Append(@, item), !.changed = TRUE]
                 ELSE [seen EXCEPT !.deferred = Append(@, item)])

\* dependency_ordered: the outer "while test_databases"
RECURSIVE outer_loop(_, _)
outer_loop(todo, acc) ==
    IF todo = <<>> THEN [raised |-> FALSE, ordered |-> acc.ordered]
    ELSE LET r == inner_loop(todo, [acc EXCEPT !.deferred = <<>>,
                                               !.changed = FALSE])
         IN  IF ~r.changed THEN [raised |-> TRUE, ordered |-> <<>>]
             ELSE outer_loop(r.deferred, r)

\* dependency_ordered(test_databases.items(), dependencies): the ordered
\* items, or raised (ImproperlyConfigured: circular dependency)
dependency_ordered(items, deps) ==
    outer_loop(items, [deps |-> deps, resolved |-> {}, ordered |-> <<>>,
                       deferred |-> <<>>, changed |-> FALSE])

\* Second pass: "for alias in aliases[1:]"
RECURSIVE switch_rest(_, _, _)
switch_rest(st, db_name, aliases) ==
    IF aliases = <<>> THEN st
    ELSE LET alias == Head(aliases)
             next ==
                 IF db_name # <<>>
                 THEN rename_only(
                          [st EXCEPT !.old_names = Append(@,
                              [alias |-> alias, db_name |-> db_name,
                               destroy |-> FALSE])], alias)
                 ELSE [reopen_connection(st, alias) EXCEPT !.old_names =
                          Append(@, [alias |-> alias, db_name |-> db_name,
                                     destroy |-> TRUE])]
         IN  switch_rest(next, db_name, Tail(aliases))

\* Second pass: "for signature, (db_name, aliases) in dependency_ordered(...)"
RECURSIVE second_pass(_, _)
second_pass(st, ordered) ==
    IF ordered = <<>> THEN st
    ELSE LET item == Head(ordered)
             first == item.aliases[1]
             st1 == reopen_connection(
                        [st EXCEPT !.old_names = Append(@,
                            [alias |-> first, db_name |-> item.db_name,
                             destroy |-> TRUE])], first)
         IN  second_pass(switch_rest(st1, item.db_name, Tail(item.aliases)),
                         Tail(ordered))

\* "for alias, mirror_alias in mirrored_aliases.items()"
RECURSIVE mirror_pass(_, _)
mirror_pass(st, mirror_order) ==
    IF mirror_order = <<>> THEN st
    ELSE LET alias == Head(mirror_order)
             mirror_alias == st.settings[alias].TEST_MIRROR
         IN  mirror_pass(
                 [st EXCEPT !.mirrors = Append(@, [alias |-> alias,
                                name |-> st.settings[alias].NAME]),
                            !.settings[alias].NAME = st.settings[mirror_alias].NAME,
                            !.log = Append(@, [alias |-> alias, how |-> "mirror"])],
                 Tail(mirror_order))

NoConfig == [old_names |-> <<>>, mirrors |-> <<>>]

InitConnections ==
    /\ settings_dict \in [Aliases -> MirrorSettings \cup PlainSettings]
    /\ connected = [a \in Aliases |-> Closed]
    /\ databases =
           [n \in (Names \cup TestNames
                   \cup {TEST_DATABASE_PREFIX \o m : m \in Names}) \ {<<>>} |-> {}]
    /\ settings_before = settings_dict

InitRunner ==
    /\ InitConnections
    /\ runner_pc = "ready"
    /\ switch_log = <<>>
    /\ old_config = NoConfig

IdleRunner ==
    /\ runner_pc = "idle"
    /\ switch_log = <<>>
    /\ old_config = NoConfig

IdleConnections ==
    /\ settings_dict = [a \in {} |-> 0]
    /\ connected = [a \in {} |-> 0]
    /\ databases = [n \in {} |-> {}]
    /\ settings_before = settings_dict

\* setup_databases: the dicts list their keys in some order
setup_databases ==
    /\ runner_pc = "ready"
    /\ \E conn_order \in Perms(Aliases) :
         LET items == test_databases(settings_dict, conn_order)
             mirrored == mirrored_aliases(settings_dict)
         IN  \E sig_order \in Perms(DOMAIN items), mirror_order \in Perms(mirrored) :
               LET ordered == dependency_ordered(
                                  [i \in DOMAIN sig_order |-> items[sig_order[i]]],
                                  dependencies(settings_dict))
                   st0 == [settings |-> settings_dict, connected |-> connected,
                           log |-> <<>>, old_names |-> <<>>, mirrors |-> <<>>]
                   st == mirror_pass(second_pass(st0, ordered.ordered),
                                     mirror_order)
               IN  IF ordered.raised
                   THEN /\ runner_pc' = "raised"
                        /\ UNCHANGED <<settings_dict, connected, switch_log,
                                       old_config>>
                   ELSE /\ runner_pc' = "setup_done"
                        /\ settings_dict' = st.settings
                        /\ connected' = st.connected
                        /\ switch_log' = st.log
                        /\ old_config' = [old_names |-> st.old_names,
                                          mirrors |-> st.mirrors]
    /\ settings_before' = settings_dict
    /\ UNCHANGED databases
    /\ UNCHANGED othersThanRunner

\* DjangoTestSuiteRunner.teardown_databases, which the mixin overrides:
\* destroy the test databases and put the old names back
RECURSIVE restore_names(_, _)
restore_names(settings, entries) ==
    IF entries = <<>> THEN settings
    ELSE restore_names(
             [settings EXCEPT ![Head(entries).alias].NAME = Head(entries).db_name],
             Tail(entries))

teardown_databases_destroying ==
    /\ runner_pc = "setup_done"
    /\ runner_pc' = "torn_down"
    /\ LET destroyed == {settings_dict[old_config.old_names[i].alias].NAME :
                            i \in {j \in DOMAIN old_config.old_names :
                                      old_config.old_names[j].destroy}}
       IN  databases' = [n \in DOMAIN databases \ destroyed |-> databases[n]]
    /\ settings_dict' = restore_names(settings_dict, old_config.old_names)
    /\ UNCHANGED <<connected, switch_log, old_config, settings_before>>
    /\ UNCHANGED othersThanRunner

\* teardown_databases: pass
teardown_databases ==
    /\ runner_pc = "setup_done"
    /\ runner_pc' = "torn_down"
    /\ UNCHANGED <<settings_dict, connected, databases, switch_log, old_config,
                   settings_before>>
    /\ UNCHANGED othersThanRunner

NextRunner == setup_databases \/ teardown_databases

PlainAliases(settings) == Aliases \ mirrored_aliases(settings)

\* where in switch_log the connection of an alias is switched (0: nowhere)
SwitchedAt(alias) ==
    IF \E i \in DOMAIN switch_log : switch_log[i].alias = alias
    THEN CHOOSE i \in DOMAIN switch_log : switch_log[i].alias = alias
    ELSE 0

C3_DependencyOrder ==
    runner_pc = "setup_done" =>
        LET deps == dependencies(settings_before)
        IN  \A A \in DOMAIN deps :
                \A B \in deps[A] \cap PlainAliases(settings_before) :
                    /\ SwitchedAt(B) > 0
                    /\ SwitchedAt(B) < SwitchedAt(A)

\* the name spelled out: TEST_NAME when set, else 'test_' + NAME
TestNameOf(settings) ==
    IF settings.TEST_NAME = <<>> THEN <<"test_">> \o settings.NAME
    ELSE settings.TEST_NAME

NonMirrorsRenamed ==
    \A a \in PlainAliases(settings_before) :
        settings_dict[a].NAME = TestNameOf(settings_before[a])

\* C7 as stated: every non-mirror alias has its test name, every mirror the
\* NAME of the alias it mirrors.
C7_TestNamesAndMirrors ==
    runner_pc = "setup_done" =>
        /\ NonMirrorsRenamed
        /\ \A a \in mirrored_aliases(settings_before) :
               settings_dict[a].NAME =
                   settings_dict[settings_dict[a].TEST_MIRROR].NAME

\* C7 as amended: the mirrors meant are those of an alias that is itself no
\* mirror.
C7_TestNamesAndDirectMirrors ==
    runner_pc = "setup_done" =>
        /\ NonMirrorsRenamed
        /\ \A a \in mirrored_aliases(settings_before) :
               settings_dict[a].TEST_MIRROR \in PlainAliases(settings_before)
               => settings_dict[a].NAME =
                      settings_dict[settings_dict[a].TEST_MIRROR].NAME

\* two aliases of one named database, one of them with a TEST_NAME, and a
\* mirror of one of the two
C7_Witness ==
    /\ runner_pc = "setup_done"
    /\ \E a, b, m \in Aliases :
           /\ a # b
           /\ {a, b} \subseteq PlainAliases(settings_before)
           /\ settings_before[a].NAME = settings_before[b].NAME
           /\ settings_before[a].NAME # <<>>
           /\ settings_before[b].TEST_NAME # <<>>
           /\ settings_dict[a].NAME # settings_dict[b].NAME
           /\ settings_before[m].TEST_MIRROR = b
           /\ settings_dict[m].NAME = settings_before[b].TEST_NAME

(***************************************************************************)
(* signals.py                                                              *)
(* An app name and a module name are sequences of dotted parts.            *)
(***************************************************************************)
MaxSignals == 2

SignalNames == {<<"a">>, <<"test_", "a">>, <<"t">>}
SignalSettings ==
    [NAME : SignalNames, TEST_NAME : TestNames, TEST_MIRROR : {NoAlias},
     HAS_TEST_DEPENDENCIES : {FALSE}, TEST_DEPENDENCIES : {{}}]
AppLists == {<<<<"south">>, <<"shop">>>>, <<<<"shop">>, <<"project", "blog">>>>}
Senders == {<<"south", "models">>, <<"shop", "models">>,
            <<"project", "blog", "models">>}

\* reset_connection that reopens the connection and leaves the name alone
reset_connection_same_name(st, alias, new_name) ==
    [st EXCEPT !.connected[alias] = OpenOn(st.settings[alias].NAME),
               !.events = Append(@, [ev |-> "reset", alias |-> alias,
                   names |-> [a \in Aliases |-> st.settings[a].NAME]])]

\* reset_connection: close, rename, open a cursor
reset_connection(st, alias, new_name) ==
    [st EXCEPT !.settings[alias].NAME = new_name,
               !.connected[alias] = OpenOn(new_name),
               !.events = Append(@, [ev |-> "reset", alias |-> alias,
                   names |-> [a \in Aliases |->
                                 IF a = alias THEN new_name
                                 ELSE st.settings[a].NAME]])]

\* call_command(command, database=connection.alias): the command acts on the
\* database the connection is named for
call_command(st, command, alias) ==
    LET name == st.settings[alias].NAME
    IN  [st EXCEPT !.databases =
                       [n \in DOMAIN st.databases |->
                           IF n = name THEN st.databases[n] \cup {command}
                           ELSE st.databases[n]],
                   !.events = Append(@, [ev |-> command, alias |-> alias,
                       names |-> [a \in Aliases |-> st.settings[a].NAME]])]

\* call_test_db_command: "for alias in connections"
RECURSIVE call_test_db_command(_, _, _)
call_test_db_command(st, command, conn_order) ==
    IF conn_order = <<>> THEN st
    ELSE LET alias == Head(conn_order)
             old_name == st.settings[alias].NAME
             test_db_name == get_test_db_name(st.settings[alias])
             next == IF ~startswith_test(old_name)
                     THEN reset_connection(
                              call_command(
                                  reset_connection(st, alias, test_db_name),
                                  command, alias),
                              alias, old_name)
                     ELSE st
         IN  call_test_db_command(next, command, Tail(conn_order))

\* '.'.join(sender.__name__.split('.')[:-1])
app_label(sender) == SubSeq(sender, 1, Len(sender) - 1)

NoSignal == [receiver |-> "none", sender |-> <<>>, events |-> <<>>]

InitSignals ==
    /\ settings_dict \in [Aliases -> SignalSettings]
    /\ connected = [a \in Aliases |-> Closed]
    /\ databases =
           [n \in (SignalNames \cup TestNames
                   \cup {TEST_DATABASE_PREFIX \o m : m \in SignalNames}) \ {<<>>}
               |-> {}]
    /\ settings_before = settings_dict
    /\ installed_apps \in AppLists
    /\ sig_call = NoSignal
    /\ sig_count = 0

IdleSignals ==
    /\ installed_apps = <<>>
    /\ sig_call = NoSignal
    /\ sig_count = 0

\* the receiver's call of call_test_db_command
RunOnTestDbs(receiver, sender, command) ==
    \E conn_order \in Perms(Aliases) :
        LET st == call_test_db_command(
                      [settings |-> settings_dict, connected |-> connected,
                       databases |-> databases, events |-> <<>>],
                      command, conn_order)
        IN  /\ settings_dict' = st.settings
            /\ connected' = st.connected
            /\ databases' = st.databases
            /\ sig_call' = [receiver |-> receiver, sender |-> sender,
                            events |-> st.events]

\* sync_test_db, the receiver of post_syncdb
sync_test_db ==
    /\ sig_count < MaxSignals
    /\ sig_count' = sig_count + 1
    /\ settings_before' = settings_dict
    /\ \E sender \in Senders :
           IF app_label(sender) = installed_apps[Len(installed_apps)]
           THEN RunOnTestDbs("sync_test_db", sender, "syncdb")
           ELSE /\ sig_call' = [receiver |-> "sync_test_db", sender |-> sender,
                                events |-> <<>>]
                /\ UNCHANGED <<settings_dict, connected, databases>>
    /\ UNCHANGED installed_apps
    /\ UNCHANGED othersThanSignals

\* migrate_test_db, the receiver of post_migrate, there when south is installed
migrate_test_db ==
    /\ \E i \in DOMAIN installed_apps : installed_apps[i] = <<"south">>
    /\ sig_count < MaxSignals
    /\ sig_count' = sig_count + 1
    /\ settings_before' = settings_dict
    /\ \E sender \in Senders :
           RunOnTestDbs("migrate_test_db", sender, "migrate")
    /\ UNCHANGED installed_apps
    /\ UNCHANGED othersThanSignals

NextSignals == sync_test_db \/ migrate_test_db

IsCommand(e) == e.ev \in {"syncdb", "migrate"}

MaxLabels == 2

Dot == "."
ShopApp == <<"shop">>
BlogApp == <<"project", Dot, "blog">>
get_apps == <<ShopApp, BlogApp>>

Test(app, module, class, method) ==
    [app |-> app, module |-> module, class |-> class, method |-> method]

\* the test modules of shop/tests/, as pkgutil.iter_modules lists them
PackageModules == <<"m1", "m2">>
ModuleClasses(module) == IF module = "m1" THEN <<"K", "L">> ELSE <<"M">>
ClassMethods(class) ==
    IF class = "K" THEN <<"t1", "t2">>
    ELSE IF class = "L" THEN <<"t3">> ELSE <<"t4">>

ShopModelsTest == Test("shop", "models", "D", "t0")
BlogTests == <<Test("blog", "tests", "B", "t5")>>
ExtraTest == Test("extra", "extra", "E", "t9")

\* klass(method): one test
loadTest(module, class, method) == Test("shop", module, class, method)

\* defaultTestLoader.loadTestsFromName(class, module)
loadTestsFromName(class, module) ==
    [i \in DOMAIN ClassMethods(class) |->
        loadTest(module, class, ClassMethods(class)[i])]

\* defaultTestLoader.loadTestsFromModule(module)
loadTestsFromModule(module) ==
    Concat([i \in DOMAIN ModuleClasses(module) |->
               loadTestsFromName(ModuleClasses(module)[i], module)])

\* str.split('.')
RECURSIVE split(_)
split(str) ==
    IF \A i \in DOMAIN str : str[i] # Dot THEN <<str>>
    ELSE LET d == CHOOSE i \in DOMAIN str :
                      str[i] = Dot /\ \A j \in 1..(i - 1) : str[j] # Dot
         IN  <<SubSeq(str, 1, d - 1)>> \o split(SubSeq(str, d + 1, Len(str)))

\* str.startswith(prefix)
startswith(str, prefix) ==
    Len(prefix) <= Len(str) /\ SubSeq(str, 1, Len(prefix)) = prefix

\* get_app(label): the app whose name ends in the label
get_app(label) == IF label = <<"shop">> THEN ShopApp ELSE BlogApp

\* django.test.simple.build_suite(app): the tests of the app's models and
\* tests modules
django_build_suite(app, shop_tests) == IF app = ShopApp THEN shop_tests ELSE BlogTests

\* is_custom_test_package(get_test_module(app_name))
is_custom_test_package(app_name) == app_name = ShopApp

\* load_custom_test_package: every module of the package
load_custom_test_package ==
    Concat([i \in DOMAIN PackageModules |-> loadTestsFromModule(PackageModules[i])])

\* load_from_app
load_from_app(app_name, shop_tests) ==
    LET parts == split(app_name)
        app == get_app(parts[Len(parts)])
        suite == django_build_suite(app, shop_tests)
    IN  IF Len(suite) > 0 THEN suite
        ELSE IF is_custom_test_package(app_name) THEN load_custom_test_package
        ELSE <<>>

\* "for app_label in self.get_apps(): if test_label.startswith(app_label)"
RECURSIVE pick_app_name(_, _, _)
pick_app_name(test_label, apps, app_name) ==
    IF apps = <<>> THEN app_name
    ELSE pick_app_name(test_label, Tail(apps),
             IF startswith(test_label, Head(apps)) THEN Head(apps) ELSE app_name)

\* the tests a dotted label names in a package of tests
package_tests(parts, new_suite) ==
    LET test_module == parts[1][1]
        parts_num == Len(parts)
    IN  IF parts_num = 1 THEN loadTestsFromModule(test_module)
        ELSE IF parts_num = 2 THEN loadTestsFromName(parts[2][1], test_module)
        ELSE IF parts_num = 3 THEN <<loadTest(test_module, parts[2][1], parts[3][1])>>
        ELSE new_suite

\* the body of "for test_label in test_labels" for a dotted label that is no app
label_suite(suite, test_label, shop_tests) ==
    LET app_name == pick_app_name(test_label, get_apps, split(test_label)[1])
        parts == split(SubSeq(test_label, Len(app_name) + 2, Len(test_label)))
        app_parts == split(app_name)
        new_suite == django_build_suite(get_app(app_parts[Len(app_parts)]),
                                        shop_tests)
    IN  IF is_custom_test_package(app_name) /\ ~(Len(suite) > 0)
        THEN package_tests(parts, new_suite)
        ELSE new_suite

RECURSIVE add_labels(_, _, _)
add_labels(suite, test_labels, shop_tests) ==
    IF test_labels = <<>> THEN suite
    ELSE LET test_label == Head(test_labels)
             added ==
                 IF (\E i \in DOMAIN test_label : test_label[i] = Dot)
                    /\ test_label \notin Range(get_apps)
                 THEN label_suite(suite, test_label, shop_tests)
                 ELSE load_from_app(test_label, shop_tests)
         IN  add_labels(suite \o added, Tail(test_labels), shop_tests)

\* reorder_suite(suite, (TestCase,)): the tests of django.test.TestCase
\* classes first; the extra test is a plain unittest.TestCase
RECURSIVE Keep(_, _)
Keep(suite, django) ==
    IF suite = <<>> THEN <<>>
    ELSE IF (Head(suite) # ExtraTest) = django
         THEN <<Head(suite)>> \o Keep(Tail(suite), django)
         ELSE Keep(Tail(suite), django)

reorder_suite(suite) == Keep(suite, TRUE) \o Keep(suite, FALSE)

build_suite(test_labels, extra_tests, shop_tests) ==
    LET labelled == IF test_labels # <<>>
                    THEN add_labels(<<>>, test_labels, shop_tests)
                    ELSE add_labels(<<>>, get_apps, shop_tests)
    IN  reorder_suite(labelled \o extra_tests)

\* the labels of a module, a class and a method of the package of shop
PackageLabels ==
    {ShopApp \o <<Dot, "m1">>, ShopApp \o <<Dot, "m2">>,
     ShopApp \o <<Dot, "m1", Dot, "K">>, ShopApp \o <<Dot, "m1", Dot, "L">>,
     ShopApp \o <<Dot, "m1", Dot, "K", Dot, "t2">>}
Labels ==
    PackageLabels \cup {ShopApp, BlogApp, BlogApp \o <<Dot, "tests">>}

NoSuiteCall ==
    [op |-> "none", test_labels |-> <<>>, extra_tests |-> <<>>, suite |-> <<>>]

\* the project and the arguments of the call to come
InitSuite ==
    /\ models_tests \in {<<>>, <<ShopModelsTest>>}
    /\ \E labels \in SeqsUpTo(Labels, MaxLabels),
          extra \in {<<>>, <<ExtraTest>>} :
           suite_call = [NoSuiteCall EXCEPT !.test_labels = labels,
                                            !.extra_tests = extra]

IdleSuite ==
    /\ models_tests = <<>>
    /\ suite_call = NoSuiteCall

call_build_suite ==
    /\ suite_call.op = "none"
    /\ suite_call' = [suite_call EXCEPT !.op = "build_suite",
                         !.suite = build_suite(suite_call.test_labels,
                                      suite_call.extra_tests, models_tests)]
    /\ UNCHANGED models_tests
    /\ UNCHANGED othersThanSuite

NextSuite == call_build_suite

\* the tests of the module, class or method that a label of the package names
NamedTests(label) ==
    LET parts == split(label)
    IN  {t \in Range(load_custom_test_package) :
            /\ t.module = parts[2][1]
            /\ Len(parts) >= 3 => t.class = parts[3][1]
            /\ Len(parts) >= 4 => t.method = parts[4][1]}

\* C9: every label of a module, class or method of a package of tests
\* contributes exactly the tests it names, whatever labels come before it:
\* the suite of a list of labels holds the tests of the suites of each label.
C9_LabelsIndependent ==
    (/\ suite_call.op = "build_suite"
     /\ suite_call.test_labels # <<>>
     /\ Range(suite_call.test_labels) \subseteq PackageLabels)
    => Range(suite_call.suite) =
           UNION {NamedTests(suite_call.test_labels[i]) :
                     i \in DOMAIN suite_call.test_labels}
           \cup Range(suite_call.extra_tests)

(***************************************************************************)
(* Specifications                                                          *)
(***************************************************************************)
\* the initial states of each part, the other parts idle
DiffInit ==
    InitDiff /\ IdleFactory /\ IdleProfile /\ IdleConnections /\ IdleRunner
    /\ IdleSignals /\ IdleSuite
FactoryInit ==
    InitFactory /\ IdleDiff /\ IdleProfile /\ IdleConnections /\ IdleRunner
    /\ IdleSignals /\ IdleSuite
ProfileInit ==
    InitProfile /\ IdleDiff /\ IdleFactory /\ IdleConnections /\ IdleRunner
    /\ IdleSignals /\ IdleSuite
RunnerInit ==
    InitRunner /\ IdleSignals /\ IdleSuite /\ IdleDiff /\ IdleFactory
    /\ IdleProfile
SignalsInit ==
    InitSignals /\ IdleRunner /\ IdleSuite /\ IdleDiff /\ IdleFactory
    /\ IdleProfile
SuiteInit ==
    InitSuite /\ IdleConnections /\ IdleRunner /\ IdleSignals /\ IdleDiff
    /\ IdleFactory /\ IdleProfile

SpecDiff == DiffInit /\ [][NextDiff]_vars

SpecFactory == FactoryInit /\ [][NextFactory]_vars

SpecProfile == ProfileInit /\ [][NextProfile]_vars

SpecRunner == RunnerInit /\ [][NextRunner]_vars

SpecSignals == SignalsInit /\ [][NextSignals]_vars

SpecSuite == SuiteInit /\ [][NextSuite]_vars
====
